---- MODULE Spec2Model ----
(***************************************************************************)
(* Model of gilt_tracker.py: the Bank of England feed parser, the series   *)
(* statistics, the reconciliation of the live benchmark quote with the     *)
(* historical series in generate_dashboard, the pass that chains them     *)
(* (fetch_and_generate, main), the valuation calculator of the generated   *)
(* page (recalculate, updateValueChart) and the caching server             *)
(* (serve_dashboard).                                                      *)
(*                                                                         *)
(* Numbers.  A yield that the code has rounded to 4 fractional digits is   *)
(* an integer count of 0.0001 % ("units").  A number as it arrives in a    *)
(* feed cell or in the live quote is an integer count of 0.00001 %         *)
(* ("fine units", Fine of them per unit), so round(x, 4) is a real         *)
(* conversion.  Arithmetic is decimal: the representation error of binary  *)
(* floating point (below 1e-9 for these magnitudes) is not modelled, and   *)
(* the input sets below hold no exact rounding tie.                        *)
(*                                                                         *)
(* Dates.  A "%Y-%m-%d" string is the integer yyyymmdd (the string without *)
(* its hyphens, so string order is integer order); a datetime is its       *)
(* proleptic Gregorian ordinal, all datetimes of the program being at      *)
(* midnight.  Python indexes from 0, the sequences here from 1.            *)
(***************************************************************************)
EXTENDS Integers, Sequences, FiniteSets, TLC

VARIABLES feed, data_points, live_data, stats, dash, nearest, result, pc,
          page, calc, srv, chart

vars == <<feed, data_points, live_data, stats, dash, nearest, result, pc,
          page, calc, srv, chart>>

-----------------------------------------------------------------------------
(* Bounds of the model *)

MaxRows == 3
MaxLen == 3
MaxWaiting == 2
MaxClock == 302
MaxData == 4
MaxWindow == 3

-----------------------------------------------------------------------------
(* Python values *)

None == -999999999

Fine == 10

Abs(x) == IF x < 0 THEN -x ELSE x

\* round(x, 4) of a number held in fine units: the nearest unit, ties to even
round4(x) ==
    LET lo == x \div Fine
        r  == x - lo * Fine
    IN  IF 2 * r < Fine THEN lo
        ELSE IF 2 * r > Fine THEN lo + 1
        ELSE IF lo % 2 = 0 THEN lo ELSE lo + 1

-----------------------------------------------------------------------------
(* Calendar: datetime.strptime / strftime / toordinal *)

IsLeap(y) == (y % 4 = 0) /\ ((y % 100 # 0) \/ (y % 400 = 0))

DaysInMonth(y, m) ==
    IF m = 2 THEN (IF IsLeap(y) THEN 29 ELSE 28)
    ELSE IF m \in {4, 6, 9, 11} THEN 30 ELSE 31

RECURSIVE DaysBeforeMonth(_, _)
DaysBeforeMonth(y, m) ==
    IF m <= 1 THEN 0 ELSE DaysBeforeMonth(y, m - 1) + DaysInMonth(y, m - 1)

DaysBeforeYear(y) ==
    365 * (y - 1) + ((y - 1) \div 4) - ((y - 1) \div 100) + ((y - 1) \div 400)

YearOf(s)  == s \div 10000
MonthOf(s) == (s \div 100) % 100
DayOf(s)   == s % 100

\* the day, month and year fields written in a date string name a real day
ValidDate(s) ==
    /\ YearOf(s) \in 1..9999
    /\ MonthOf(s) \in 1..12
    /\ DayOf(s) \in 1..DaysInMonth(YearOf(s), MonthOf(s))

\* datetime.strptime(s, "%Y-%m-%d") as an ordinal, for a valid s
strptime(s) ==
    DaysBeforeYear(YearOf(s)) + DaysBeforeMonth(YearOf(s), MonthOf(s)) + DayOf(s)

\* datetime(year, 1, 1) of the year of the date string s
year_start(s) == DaysBeforeYear(YearOf(s)) + 1

-----------------------------------------------------------------------------
(* Feed cells.  k is what the text of the cell is:                         *)
(*   "blank"  empty or whitespace only                                     *)
(*   "DATE"   text that is DATE once stripped and upper-cased              *)
(*   "code"   text that contains the series code once upper-cased          *)
(*   "junk"   any other text that is neither a date nor a number           *)
(*   "date"   day, month and year written in format fmt (1..4, the index   *)
(*            in parse_boe_date's list), n = yyyymmdd as written           *)
(*   "num"    a decimal number, n in fine units                            *)

Cell(k, fmt, n) == [k |-> k, fmt |-> fmt, n |-> n]

Blank   == Cell("blank", 0, 0)
DateHdr == Cell("DATE", 0, 0)
CodeHdr == Cell("code", 0, 0)
Junk    == Cell("junk", 0, 0)
DateCell(fmt, n) == Cell("date", fmt, n)
Num(n)  == Cell("num", 0, n)

NumFormats == 4

\* parse_boe_date: [ok, date]; ok = FALSE is the ValueError
RECURSIVE try_formats(_, _)
try_formats(cell, f) ==
    IF f > NumFormats THEN [ok |-> FALSE, date |-> None]
    ELSE IF cell.k = "date" /\ cell.fmt = f /\ ValidDate(cell.n)
         THEN [ok |-> TRUE, date |-> cell.n]
         ELSE try_formats(cell, f + 1)

parse_boe_date(cell) == try_formats(cell, 1)

\* float(yield_str): [ok, val]; ok = FALSE is the ValueError
float(cell) ==
    IF cell.k = "num" THEN [ok |-> TRUE, val |-> cell.n]
    ELSE [ok |-> FALSE, val |-> None]

Point(d, y) == [date |-> d, yield |-> y]

\* float("inf") as a yield (line 105), in units: json.dumps writes it as
\* Infinity (line 293).  It stands above every finite yield of the model;
\* sums and differences with it are large, not infinite.
inf == 100000000

\* row is empty or every cell of it is blank (line 78)
blank_row(row) == \A i \in 1..Len(row) : row[i].k = "blank"

\* first index of row whose cell is of kind k, 0 when there is none
RECURSIVE index_from(_, _, _)
index_from(row, k, i) ==
    IF i > Len(row) THEN 0
    ELSE IF row[i].k = k THEN i ELSE index_from(row, k, i + 1)

index_of(row, k) == index_from(row, k, 1)

\* parse_row with the length test off by one: a row whose last cell is the
\* date or the value is skipped
parse_row_offbyone(row, date_col, yield_col) ==
    IF date_col >= Len(row) \/ yield_col >= Len(row) THEN <<>>
    ELSE IF row[date_col].k = "blank" \/ row[yield_col].k = "blank" THEN <<>>
    ELSE LET d == parse_boe_date(row[date_col])
             v == float(row[yield_col])
         IN  IF d.ok /\ v.ok THEN <<Point(d.date, round4(v.val))>> ELSE <<>>

\* the try block of lines 98-111: the observation appended, or <<>> when the
\* row is skipped (IndexError, empty cell, ValueError)
parse_row(row, date_col, yield_col) ==
    IF date_col > Len(row) \/ yield_col > Len(row) THEN <<>>
    ELSE IF row[date_col].k = "blank" \/ row[yield_col].k = "blank" THEN <<>>
    ELSE LET d == parse_boe_date(row[date_col])
             v == float(row[yield_col])
         IN  IF d.ok /\ v.ok THEN <<Point(d.date, round4(v.val))>> ELSE <<>>

\* the date column kept from the first row that has a DATE cell
header_candidate_first_date(row, st) ==
    [found |-> index_of(row, "code") # 0,
     date_col |-> IF st.date_col # 0 THEN st.date_col ELSE index_of(row, "DATE"),
     yield_col |-> index_of(row, "code"), pts |-> st.pts]

\* lines 84-91, on a row that has a DATE cell while no header is found yet:
\* date_col is assigned, and the row is the header if it has a code cell
header_candidate(row, st) ==
    [found |-> index_of(row, "code") # 0, date_col |-> index_of(row, "DATE"),
     yield_col |-> index_of(row, "code"), pts |-> st.pts]

\* the loop of lines 77-111 from row i on; st = [found, date_col, yield_col, pts]
RECURSIVE scan_rows(_, _, _)
scan_rows(rows, i, st) ==
    IF i > Len(rows) THEN st
    ELSE LET row == rows[i] IN
         IF blank_row(row) THEN scan_rows(rows, i + 1, st)
         ELSE IF ~st.found /\ index_of(row, "DATE") # 0
              THEN scan_rows(rows, i + 1, header_candidate(row, st))
         ELSE IF ~st.found THEN scan_rows(rows, i + 1, st)
         ELSE scan_rows(rows, i + 1,
                  [st EXCEPT !.pts = st.pts \o parse_row(row, st.date_col, st.yield_col)])

\* list.sort(key = date): stable insertion by date string
insert(s, p) ==
    LET k == CHOOSE j \in 0..Len(s) :
                 /\ \A i \in 1..j : s[i].date <= p.date
                 /\ (j < Len(s) => s[j + 1].date > p.date)
    IN  SubSeq(s, 1, k) \o <<p>> \o SubSeq(s, k + 1, Len(s))

\* the observations left in the order of the feed
feed_order(s) == s

RECURSIVE sort_by_date(_)
sort_by_date(s) ==
    IF s = <<>> THEN <<>>
    ELSE insert(sort_by_date(SubSeq(s, 1, Len(s) - 1)), s[Len(s)])

parse_boe_csv(rows) ==
    sort_by_date(scan_rows(rows, 1,
        [found |-> FALSE, date_col |-> 0, yield_col |-> 0, pts |-> <<>>]).pts)

-----------------------------------------------------------------------------
(* Series statistics *)

\* the loop of find_nearest_value with "diff <= best_diff": the last
\* observation wins a tie
RECURSIVE nearest_from_last(_, _, _, _, _)
nearest_from_last(pts, target, i, best, best_diff) ==
    IF i > Len(pts) THEN best
    ELSE LET diff == Abs(strptime(pts[i].date) - target)
         IN  IF best_diff = None \/ diff <= best_diff
             THEN nearest_from_last(pts, target, i + 1, pts[i].yield, diff)
             ELSE nearest_from_last(pts, target, i + 1, best, best_diff)

\* the loop of find_nearest_value (lines 167-174) from observation i on;
\* target is a datetime (ordinal); best and best_diff start as None
RECURSIVE nearest_from(_, _, _, _, _)
nearest_from(pts, target, i, best, best_diff) ==
    IF i > Len(pts) THEN best
    ELSE LET diff == Abs(strptime(pts[i].date) - target)
         IN  IF best_diff = None \/ diff < best_diff
             THEN nearest_from(pts, target, i + 1, pts[i].yield, diff)
             ELSE nearest_from(pts, target, i + 1, best, best_diff)

find_nearest_value(pts, target) == nearest_from(pts, target, 1, None, None)

\* max(yields), min(yields), yields.index(v)
max_yield(pts) == CHOOSE v \in {pts[i].yield : i \in 1..Len(pts)} :
                      \A i \in 1..Len(pts) : pts[i].yield <= v
min_yield(pts) == CHOOSE v \in {pts[i].yield : i \in 1..Len(pts)} :
                      \A i \in 1..Len(pts) : pts[i].yield >= v
\* the last index holding v instead of the first
yield_index_last(pts, v) == CHOOSE i \in 1..Len(pts) :
                      pts[i].yield = v /\ \A j \in (i + 1)..Len(pts) : pts[j].yield # v

yield_index(pts, v) == CHOOSE i \in 1..Len(pts) :
                      pts[i].yield = v /\ \A j \in 1..(i - 1) : pts[j].yield # v

\* previous taken two places before the latest observation
previous_of_third(pts) == IF Len(pts) >= 3 THEN pts[Len(pts) - 2] ELSE pts[Len(pts)]

\* line 136: the second-to-last observation, the last one when it is alone
previous_of(pts) == IF Len(pts) >= 2 THEN pts[Len(pts) - 1] ELSE pts[Len(pts)]

\* Python truthiness of a float-or-None: None and 0.0 are false
truthy(v) == v # None /\ v # 0

\* "round(current - v, 4) if v else None" (lines 157-159); both operands are
\* already whole units, so the rounding leaves the difference as it is
change_or_none(cur, v) == IF truthy(v) THEN cur - v ELSE None

\* the empty dict returned for an empty series (line 132)
EmptyDict == <<>>

compute_stats(pts) ==
    IF pts = <<>> THEN EmptyDict
    ELSE LET current  == pts[Len(pts)]
             previous == previous_of(pts)
             current_date  == strptime(current.date)
             week_ago_val  == find_nearest_value(pts, current_date - 7)
             month_ago_val == find_nearest_value(pts, current_date - 30)
             ytd_start_val == find_nearest_value(pts, year_start(current.date))
         IN  [current_yield  |-> current.yield,
              current_date   |-> current.date,
              previous_yield |-> previous.yield,
              daily_change   |-> current.yield - previous.yield,
              high_12m       |-> max_yield(pts),
              low_12m        |-> min_yield(pts),
              high_date      |-> pts[yield_index(pts, max_yield(pts))].date,
              low_date       |-> pts[yield_index(pts, min_yield(pts))].date,
              week_change    |-> change_or_none(current.yield, week_ago_val),
              month_change   |-> change_or_none(current.yield, month_ago_val),
              ytd_change     |-> change_or_none(current.yield, ytd_start_val),
              data_points_count |-> Len(pts)]

-----------------------------------------------------------------------------
(* The live quote.  live_data is the dict built by fetch_live_gilt_yield    *)
(* (some = TRUE) or None (some = FALSE).  yield, yr_high and yr_low are in  *)
(* fine units or None.  last_time.k is                                      *)
(*   "absent"  the key is not in the dict                                   *)
(*   "null"    the key holds None                                           *)
(*   "empty"   the empty string                                             *)
(*   "junk"    text whose part before the first T is not a %Y-%m-%d date    *)
(*   "ts"      a timestamp whose part before the first T is the date `date` *)

LastTime(k, d) == [k |-> k, date |-> d]

Quote(y, lt, hi, lo) ==
    [some |-> TRUE, yield |-> y, last_time |-> lt, yr_high |-> hi, yr_low |-> lo]

NoLive == [some |-> FALSE, yield |-> None, last_time |-> LastTime("absent", 0),
           yr_high |-> None, yr_low |-> None]

\* the band of line 280, in units
SPREAD_MIN == 4000
SPREAD_MAX == 10000

\* the band test with strict comparisons
in_band_open(spread) == SPREAD_MIN < spread /\ spread < SPREAD_MAX

\* line 281: SPREAD_MIN <= spread <= SPREAD_MAX
in_band(spread) == SPREAD_MIN <= spread /\ spread <= SPREAD_MAX

\* the test of line 260 without its second conjunct
has_live_some(live) == live.some

\* line 260
has_live_of(live) == live.some /\ live.yield # None

\* lines 267-271: the date matched against the series
cnbc_date_of(live, st) ==
    IF live.last_time.k = "ts" /\ ValidDate(live.last_time.date)
    THEN strptime(live.last_time.date)
    ELSE strptime(st.current_date)

\* the quote matched to the first observation of the series
matched_boe_first(pts, st, cnbc_date) == pts[1].yield

\* lines 272-274
matched_boe_of(pts, st, cnbc_date) ==
    IF find_nearest_value(pts, cnbc_date) = None THEN st.current_yield
    ELSE find_nearest_value(pts, cnbc_date)

\* the shift applied from the second observation on
shifted_skip_first(pts, spread) ==
    [i \in 1..Len(pts) |-> IF i = 1 THEN pts[i].yield ELSE pts[i].yield + spread]

\* lines 282, 287, 293: the list written as yields_json
shifted(pts, spread) == [i \in 1..Len(pts) |-> pts[i].yield + spread]

\* What one call of generate_dashboard computes.  line = 0 and raised =
\* "none" when it returns; otherwise the exception and the line that raises
\* it, the locals assigned after that line being None / empty and written
\* FALSE.  spread_computed is spread as assigned at line 276, spread the
\* value the page is rendered with (reset to 0 at line 289).
Dash(raised, line, hl, cd, mb, sc, sp, ok, warned, dates, yields, cy, hi, lo, written) ==
    [raised |-> raised, line |-> line, has_live |-> hl, cnbc_date |-> cd,
     matched_boe |-> mb, spread_computed |-> sc, spread |-> sp, spread_ok |-> ok,
     warned |-> warned, dates |-> dates, yields |-> yields, current_yield |-> cy,
     high_12m |-> hi, low_12m |-> lo, written |-> written]

NoDash == Dash("none", 0, FALSE, None, None, None, None, FALSE, FALSE,
               <<>>, <<>>, None, None, None, FALSE)

generate_dashboard(pts, st, live) ==
    LET has_live == has_live_of(live)
        dates    == [i \in 1..Len(pts) |-> pts[i].date]
    IN
    IF has_live /\ live.last_time.k = "null"
    THEN \* None.split: AttributeError, not among the exceptions of line 270
         Dash("AttributeError", 268, TRUE, None, None, None, None, FALSE, FALSE,
              dates, <<>>, None, None, None, FALSE)
    ELSE
    LET cnbc_date == IF has_live THEN cnbc_date_of(live, st) ELSE None
        matched   == IF has_live THEN matched_boe_of(pts, st, cnbc_date) ELSE None
        spread276 == IF has_live THEN round4(live.yield - matched * Fine) ELSE None
        spread_ok == has_live /\ in_band(spread276)
        spread    == IF spread_ok THEN spread276 ELSE 0
        warned    == has_live /\ ~spread_ok
        yields    == shifted(pts, spread)
        current_yield == IF has_live THEN live.yield ELSE st.current_yield * Fine
        use_live_hl == has_live /\ live.yr_high # None
        high_12m  == IF use_live_hl THEN live.yr_high ELSE st.high_12m * Fine
        low_12m   == IF use_live_hl THEN live.yr_low ELSE st.low_12m * Fine
    IN
    IF st.month_change = None
    THEN \* None < 0 at line 326: TypeError
         Dash("TypeError", 326, has_live, cnbc_date, matched, spread276, spread,
              spread_ok, warned, dates, yields, current_yield, None, None, FALSE)
    ELSE IF low_12m = None
    THEN \* format of None with ".2f" in the page template: TypeError
         Dash("TypeError", 1337, has_live, cnbc_date, matched, spread276, spread,
              spread_ok, warned, dates, yields, current_yield, high_12m, low_12m, FALSE)
    ELSE Dash("none", 0, has_live, cnbc_date, matched, spread276, spread,
              spread_ok, warned, dates, yields, current_yield, high_12m, low_12m, TRUE)

-----------------------------------------------------------------------------
(* The pass *)

\* What one call of fetch_and_generate does: the exception that leaves it
\* ("none" when it returns) and which of its steps ran.
Outcome(error, parsed, computed, saved, fetched, called, written) ==
    [error |-> error, parsed |-> parsed, stats_computed |-> computed,
     data_saved |-> saved, live_fetched |-> fetched,
     dashboard_called |-> called, dashboard_written |-> written]

\* lines 2063-2079, the statistics st computed: save_data,
\* fetch_live_gilt_yield, the printed summary and generate_dashboard.  (The
\* intermediate values are bound through singleton sets so that each is
\* computed once.)
after_stats(pts, st, live) ==
    CHOOSE r \in { [pts |-> pts, st |-> st, d |-> d,
                    out |-> Outcome(d.raised, TRUE, TRUE, TRUE, TRUE, TRUE, d.written)] :
                   d \in {generate_dashboard(pts, st, live)} } : TRUE

\* after_parse without the test of line 2059: on an empty series
\* compute_stats returns {}, save_data and fetch_live_gilt_yield run, and
\* the summary of lines 2068-2070 raises KeyError on the empty stats
after_parse_nocheck(pts, live) ==
    IF pts = <<>>
    THEN [pts |-> pts, st |-> EmptyDict, d |-> NoDash,
          out |-> Outcome("KeyError", TRUE, TRUE, TRUE, TRUE, FALSE, FALSE)]
    ELSE CHOOSE r \in { after_stats(pts, st, live) : st \in {compute_stats(pts)} } : TRUE

\* lines 2059-2079, the feed parsed into pts
after_parse(pts, live) ==
    IF pts = <<>>
    THEN [pts |-> pts, st |-> EmptyDict, d |-> NoDash,
          out |-> Outcome("RuntimeError", TRUE, FALSE, FALSE, FALSE, FALSE, FALSE)]
    ELSE CHOOSE r \in { after_stats(pts, st, live) : st \in {compute_stats(pts)} } : TRUE

\* http_ok = FALSE: requests.get or raise_for_status raises in fetch_gilt_data
fetch_and_generate(http_ok, rows, live) ==
    IF ~http_ok
    THEN [pts |-> <<>>, st |-> EmptyDict, d |-> NoDash,
          out |-> Outcome("RequestException", FALSE, FALSE, FALSE, FALSE, FALSE, FALSE)]
    ELSE CHOOSE r \in { after_parse(pts, live) : pts \in {parse_boe_csv(rows)} } : TRUE

\* main without --serve (lines 2158-2169): RequestException and RuntimeError
\* are caught and exit with status 1, any other exception ends the process
\* with status 1 as well; the browser is opened only when the pass returns
main(http_ok, rows, live) ==
    CHOOSE m \in
        { [r EXCEPT !.out = [error |-> r.out.error, parsed |-> r.out.parsed,
                             stats_computed |-> r.out.stats_computed,
                             data_saved |-> r.out.data_saved,
                             live_fetched |-> r.out.live_fetched,
                             dashboard_called |-> r.out.dashboard_called,
                             dashboard_written |-> r.out.dashboard_written,
                             exit_code |-> IF r.out.error = "none" THEN 0 ELSE 1,
                             browser_opened |-> r.out.error = "none"]] :
          r \in {fetch_and_generate(http_ok, rows, live)} } : TRUE

NoResult == [error |-> "none", parsed |-> FALSE, stats_computed |-> FALSE,
             data_saved |-> FALSE, live_fetched |-> FALSE,
             dashboard_called |-> FALSE, dashboard_written |-> FALSE,
             exit_code |-> 0, browser_opened |-> FALSE]

NoNearest == [target |-> None, value |-> None]

-----------------------------------------------------------------------------
(* The valuation calculator of the generated page (the script of lines      *)
(* 1677-2035).  A JavaScript number is an exact fraction [n, d] in lowest   *)
(* terms with d > 0, or one of Infinity, -Infinity and NaN; null is a value *)
(* apart.  Rounding of binary floating point is not modelled, and zero has  *)
(* no sign.                                                                 *)

NaN      == [n |-> 0, d |-> 0]
Infinity == [n |-> 1, d |-> 0]
Null     == [n |-> 0, d |-> -1]

RECURSIVE Gcd(_, _)
Gcd(a, b) == IF b = 0 THEN a ELSE Gcd(b, a % b)

Frac(n, d) == LET g == Gcd(Abs(n), d) IN [n |-> n \div g, d |-> d \div g]

IsFinite(a) == a.d > 0

Sgn(n) == IF n > 0 THEN 1 ELSE IF n < 0 THEN -1 ELSE 0

\* the JavaScript operators +, -, *, / on numbers
FAdd(a, b) ==
    IF IsFinite(a) /\ IsFinite(b)
    THEN LET g == Gcd(a.d, b.d)
         IN  Frac(a.n * (b.d \div g) + b.n * (a.d \div g), (a.d \div g) * b.d)
    ELSE IF a = NaN \/ b = NaN THEN NaN
    ELSE IF IsFinite(a) THEN b
    ELSE IF IsFinite(b) \/ a = b THEN a
    ELSE NaN

FNeg(a) == [n |-> -a.n, d |-> a.d]

FSub(a, b) == FAdd(a, FNeg(b))

FMul(a, b) ==
    IF IsFinite(a) /\ IsFinite(b)
    THEN LET g1 == Gcd(Abs(a.n), b.d)
             g2 == Gcd(Abs(b.n), a.d)
         IN  [n |-> (a.n \div g1) * (b.n \div g2), d |-> (a.d \div g2) * (b.d \div g1)]
    ELSE IF a.n = 0 \/ b.n = 0 THEN NaN
    ELSE [n |-> Sgn(a.n) * Sgn(b.n), d |-> 0]

FDiv(a, b) ==
    IF a = NaN \/ b = NaN THEN NaN
    ELSE IF ~IsFinite(b) THEN IF IsFinite(a) THEN Frac(0, 1) ELSE NaN
    ELSE IF b.n = 0 THEN IF a.n = 0 THEN NaN ELSE [n |-> Sgn(a.n), d |-> 0]
    ELSE IF ~IsFinite(a) THEN [n |-> Sgn(a.n) * Sgn(b.n), d |-> 0]
    ELSE IF b.n < 0 THEN FMul(FNeg(a), [n |-> b.d, d |-> -b.n])
    ELSE FMul(a, [n |-> b.d, d |-> b.n])

\* x <= 0 and x > 0: both false of NaN
LeqZero(a) == a # NaN /\ a.n <= 0
Positive(a) == a.n > 0

\* !x: true of NaN and of 0
Falsy(a) == a = NaN \/ a.n = 0

Hundred == Frac(100, 1)

\* The text of an input field.  k: "empty"; "junk" (no digit in it); "zero";
\* "pos" (a positive decimal, v); "neg" (a minus sign before the decimal v).
\* digits is the integer that the digits of the text spell once everything
\* else is removed, None when the text has no digit.
Txt(k, v, digits) == [k |-> k, v |-> v, digits |-> digits]

EmptyText == Txt("empty", NaN, None)

\* parseNumber (lines 1698-1700): every character but digits and the point
\* is removed, the minus sign with them, and parseFloat reads the rest
parseNumber(t) == IF t.k \in {"empty", "junk"} THEN NaN ELSE t.v

\* the rewriting of the rent and price fields as the user types (lines
\* 1996-1999, 2008-2011): the digits alone, regrouped
regroup(t) ==
    IF t.digits = None THEN t
    ELSE Txt(IF t.digits = 0 THEN "zero" ELSE "pos", Frac(t.digits, 1), t.digits)

\* the scenarios of line 1956
scenarios == <<-75, -50, -25, 0, 25, 50, 75>>

\* the shifted yield with the division by 100 left out
new_yield_unscaled(propYield, passThrough, deltaBps) ==
    FAdd(propYield, FMul(Frac(deltaBps, 1), passThrough))

\* lines 1957-1958: effectiveShift, newPropYield
new_yield(propYield, passThrough, deltaBps) ==
    FAdd(propYield, FDiv(FMul(Frac(deltaBps, 1), passThrough), Hundred))

\* line 1959: the scenario is left out
omitted(newPropYield) == LeqZero(newPropYield)

\* one pass of the forEach body (lines 1956-1984): the row appended, if any
scenario_row(rent, propYield, passThrough, baseValue, deltaBps) ==
    LET newPropYield == new_yield(propYield, passThrough, deltaBps)
    IN  IF omitted(newPropYield) THEN <<>>
        ELSE LET newValue == FDiv(rent, FDiv(newPropYield, Hundred))
                 change   == FSub(newValue, baseValue)
             IN  << [deltaBps |-> deltaBps, yield |-> newPropYield,
                     value |-> newValue, change |-> change,
                     changePct |-> FMul(FDiv(change, baseValue), Hundred)] >>

RECURSIVE scenario_rows(_, _, _, _, _)
scenario_rows(rent, propYield, passThrough, baseValue, i) ==
    IF i > Len(scenarios) THEN <<>>
    ELSE scenario_row(rent, propYield, passThrough, baseValue, scenarios[i])
         \o scenario_rows(rent, propYield, passThrough, baseValue, i + 1)

\* the numbers of the page: yields_json (units) and CURRENT_GILT (fine units)
page_yield(pg, i) ==
    IF pg.yields[i] = inf THEN Infinity ELSE Frac(pg.yields[i], 10000)
page_gilt(pg) == Frac(pg.current, 10000 * Fine)

\* the projection with the whole gilt move passed through
implied_value_full(pg, rent, propYield, passThrough, i) ==
    LET giltDelta     == FSub(page_yield(pg, i), page_gilt(pg))
        adjustedYield == FAdd(propYield, giltDelta)
    IN  IF LeqZero(adjustedYield) THEN Null
        ELSE FDiv(rent, FDiv(adjustedYield, Hundred))

\* lines 1727-1733: the implied value at observation i
implied_value(pg, rent, propYield, passThrough, i) ==
    LET giltDelta     == FSub(page_yield(pg, i), page_gilt(pg))
        adjustedYield == FAdd(propYield, FMul(giltDelta, passThrough))
    IN  IF LeqZero(adjustedYield) THEN Null
        ELSE FDiv(rent, FDiv(adjustedYield, Hundred))

\* line 1489: the first index of the window that ends at i
sma_start_late(i, window) == i - window + 2

sma_start(i, window) == i - window + 1

\* lines 1488-1491: data[j] + ... + data[i] added to acc
RECURSIVE sma_sum(_, _, _, _)
sma_sum(data, j, i, acc) ==
    IF j > i THEN acc
    ELSE CHOOSE r \in { sma_sum(data, j + 1, i, a) : a \in {FAdd(acc, data[j])} } : TRUE

\* computeSMA (lines 1482-1496); index i here is index i - 1 there
computeSMA(data, window) ==
    [i \in 1..Len(data) |->
        IF i - 1 < window - 1 THEN Null
        ELSE FDiv(sma_sum(data, sma_start(i, window), i, Frac(0, 1)), Frac(window, 1))]

\* the window of the value moving average (line 1739: i < 29)
ValueWindow == 30

\* lines 1741-1748: sum and count of the non-null values at j..i
RECURSIVE window_sum(_, _, _, _)
window_sum(vals, j, i, acc) ==
    IF j > i THEN acc
    ELSE IF vals[j] # Null
         THEN CHOOSE r \in
                  { window_sum(vals, j + 1, i, a) :
                    a \in { [sum |-> FAdd(acc.sum, vals[j]), count |-> acc.count + 1] } } : TRUE
         ELSE window_sum(vals, j + 1, i, acc)

\* the average absent as soon as the window has one absent value
value_sma_propagating(vals) ==
    [i \in 1..Len(vals) |->
        IF i < ValueWindow THEN Null
        ELSE LET acc == window_sum(vals, i - ValueWindow + 1, i,
                                   [sum |-> Frac(0, 1), count |-> 0])
             IN  IF acc.count = ValueWindow
                 THEN FDiv(acc.sum, Frac(acc.count, 1)) ELSE Null]

\* lines 1737-1752
value_sma(vals) ==
    [i \in 1..Len(vals) |->
        IF i < ValueWindow THEN Null
        ELSE LET acc == window_sum(vals, i - ValueWindow + 1, i,
                                   [sum |-> Frac(0, 1), count |-> 0])
             IN  IF acc.count > 0 THEN FDiv(acc.sum, Frac(acc.count, 1)) ELSE Null]

\* the inputs fail the test of lines 1719, 1928 and 1943
invalid_input(a, b) == Falsy(a) \/ Falsy(b) \/ LeqZero(a) \/ LeqZero(b)

\* updateValueChart (lines 1718-1760): the container hidden, or the two
\* data sets recomputed and the container shown
updateValueChart(c, pg, rent, propYield, passThrough) ==
    IF invalid_input(rent, propYield)
    THEN [c EXCEPT !.chart = FALSE]
    ELSE CHOOSE r \in
             { [c EXCEPT !.chart = TRUE, !.impliedValues = iv,
                         !.valueSMA30 = value_sma(iv), !.todayVal = iv[Len(iv)]] :
               iv \in { [i \in 1..Len(pg.yields) |->
                           implied_value(pg, rent, propYield, passThrough, i)] } } : TRUE

\* a rejection that leaves the value chart as it is
reject_keep_chart(c, pg) == [c EXCEPT !.placeholder = TRUE, !.content = FALSE]

\* the rejection of lines 1929-1933 and 1944-1947
reject(c, pg) ==
    updateValueChart([c EXCEPT !.placeholder = TRUE, !.content = FALSE],
                     pg, Frac(0, 1), Frac(0, 1), Frac(0, 1))

\* lines 1949-1990, the inputs accepted
accept(c, pg, rent, propYield, passThrough) ==
    CHOOSE r \in
        { updateValueChart(
              [c EXCEPT !.placeholder = FALSE, !.content = TRUE,
                        !.baseValue = baseValue,
                        !.rows = scenario_rows(rent, propYield, passThrough, baseValue, 1)],
              pg, rent, propYield, passThrough) :
          baseValue \in { FDiv(rent, FDiv(propYield, Hundred)) } } : TRUE

\* recalculate (lines 1919-1991) on the calculator state c of page pg
recalculate(c, pg) ==
    LET rent        == parseNumber(c.rentText)
        passThrough == Frac(c.passThrough, 100)
        price       == parseNumber(c.priceText)
    IN  IF c.inputMode = "price"
        THEN IF invalid_input(rent, price)
             THEN reject([c EXCEPT !.derived = FALSE], pg)
             ELSE accept([c EXCEPT !.derived = TRUE], pg, rent,
                         FMul(FDiv(rent, price), Hundred), passThrough)
        ELSE IF invalid_input(rent, parseNumber(c.yieldText))
             THEN reject([c EXCEPT !.derived = FALSE], pg)
             ELSE accept([c EXCEPT !.derived = FALSE], pg, rent,
                         parseNumber(c.yieldText), passThrough)

\* the calculator as the page loads (lines 1393-1432, 1696): empty fields,
\* slider at 50, yield mode, placeholder shown, nothing computed
CalcInit ==
    [rentText |-> EmptyText, yieldText |-> EmptyText, priceText |-> EmptyText,
     passThrough |-> 50, inputMode |-> "yield",
     placeholder |-> TRUE, content |-> FALSE, derived |-> FALSE, chart |-> FALSE,
     baseValue |-> Null, rows |-> <<>>, impliedValues |-> <<>>, valueSMA30 |-> <<>>,
     todayVal |-> Null]

\* dates_json, yields_json and CURRENT_GILT of a written page
PageOf(d) == [dates |-> d.dates, yields |-> d.yields, current |-> d.current_yield]

NoPage == [dates |-> <<>>, yields |-> <<>>, current |-> None]

\* a call of computeSMA: its arguments and, once it has returned, its result
SMACall(data, window, sma, returned) ==
    [data |-> data, window |-> window, sma |-> sma, returned |-> returned]

NoChart == SMACall(<<>>, 0, <<>>, FALSE)

\* line 1497: yieldSMA30 = computeSMA(yields, 30) as the page loads
yield_chart(pg) ==
    CHOOSE r \in
        { SMACall(data, ValueWindow, computeSMA(data, ValueWindow), TRUE) :
          data \in { [i \in 1..Len(pg.yields) |-> page_yield(pg, i)] } } : TRUE

-----------------------------------------------------------------------------
(* serve_dashboard (lines 2082-2145): the cache, the handler and the server *)
(* loop.  Time is time.time() in whole seconds since the server started.    *)

\* line 2090
CACHE_TTL == 300

\* line 2089: cache = {"html": None, "time": 0}; NoPage stands for None
Cache(html, time) == [html |-> html, time |-> time]

\* a connection in the listen queue, with what held when it arrived
Conn(path, arrived, cache) == [path |-> path, arrived |-> arrived, cache |-> cache]

\* what a request was answered with.  kind: "other" (not the dashboard),
\* "hit" (from the cache, nothing fetched), "refreshed", "failed"
Response(status, body, kind, conn, now, before) ==
    [status |-> status, body |-> body, kind |-> kind, arrived |-> conn.arrived,
     cache_at_arrival |-> conn.cache, now |-> now, cache_before |-> before]

NoResponse ==
    Response(0, NoPage, "none", Conn("", 0, Cache(NoPage, 0)), 0, Cache(NoPage, 0))

ServerInit ==
    [cache |-> Cache(NoPage, 0), clock |-> 0, queue |-> <<>>, handlers |-> <<>>,
     last |-> NoResponse]

\* line 2094
dashboard_path(path) == path \in {"/", "/index.html"}

\* the test of line 2100 with >= for >
stale_at_ttl(cache, now) == cache.html = NoPage \/ (now - cache.time) >= CACHE_TTL

\* line 2100
stale(cache, now) == cache.html = NoPage \/ (now - cache.time) > CACHE_TTL

\* a server that starts a handler whatever others are running
idle_threading(handlers) == TRUE

\* HTTPServer (line 2126) handles one request at a time: the loop of
\* serve_forever (line 2142) takes the next connection when the handler of
\* the previous one has returned
idle(handlers) == handlers = <<>>

\* a failed refresh that stamps the cache with the time of the request
cache_on_failure_stamped(cache, now) == Cache(cache.html, now)

\* lines 2109-2113: the except branch assigns nothing
cache_on_failure(cache, now) == cache

\* a refresh that stores the page and leaves the timestamp
cache_on_success_unstamped(cache, html, now) == Cache(html, cache.time)

\* lines 2102-2107: the file just written is read into the cache
cache_on_success(cache, html, now) == Cache(html, now)

\* do_GET up to the call of fetch_and_generate (lines 2094-2103): the
\* connection at the head of the queue is taken
do_GET_begin(sv) ==
    LET conn == Head(sv.queue)
        now  == sv.clock
    IN  IF ~dashboard_path(conn.path)
        THEN [sv EXCEPT !.queue = Tail(sv.queue),
                        !.last = Response(204, NoPage, "other", conn, now, sv.cache)]
        ELSE IF stale(sv.cache, now)
        THEN [sv EXCEPT !.queue = Tail(sv.queue),
                        !.handlers = Append(sv.handlers,
                                            [conn |-> conn, now |-> now, before |-> sv.cache])]
        ELSE [sv EXCEPT !.queue = Tail(sv.queue),
                        !.last = Response(200, sv.cache.html, "hit", conn, now, sv.cache)]

\* the handlers of sv without the i-th
others(handlers, i) == SubSeq(handlers, 1, i - 1) \o SubSeq(handlers, i + 1, Len(handlers))

\* a handler that answers 200 whatever the refresh did and the cache holds
do_GET_end_always_200(sv, i, ok, html) ==
    LET h == sv.handlers[i]
        c == IF ok THEN cache_on_success(sv.cache, html, h.now)
             ELSE cache_on_failure(sv.cache, h.now)
    IN  [sv EXCEPT !.handlers = others(sv.handlers, i),
                   !.cache = c,
                   !.last = Response(200, c.html, IF ok THEN "refreshed" ELSE "failed",
                                     h.conn, h.now, h.before)]

\* do_GET from the return of fetch_and_generate (lines 2103-2118) in the
\* i-th handler: ok when the pass returned and the file could be read
do_GET_end(sv, i, ok, html) ==
    LET h == sv.handlers[i]
    IN  IF ok
        THEN [sv EXCEPT !.handlers = others(sv.handlers, i),
                        !.cache = cache_on_success(sv.cache, html, h.now),
                        !.last = Response(200, html, "refreshed", h.conn, h.now, h.before)]
        ELSE CHOOSE r \in
                 { [sv EXCEPT !.handlers = others(sv.handlers, i),
                              !.cache = c,
                              !.last = IF c.html = NoPage
                                       THEN Response(500, NoPage, "failed", h.conn, h.now, h.before)
                                       ELSE Response(200, c.html, "failed", h.conn, h.now, h.before)] :
                   c \in {cache_on_failure(sv.cache, h.now)} } : TRUE

-----------------------------------------------------------------------------
(* Inputs *)

\* rows a response of the Bank of England endpoint can hold
FeedRows ==
    { <<DateHdr, CodeHdr>>,                              \* the header
      <<DateHdr, Junk>>,                                 \* DATE, no series code
      <<CodeHdr, DateHdr>>,                              \* header, value column first
      <<Num(410000), DateCell(4, 20240102)>>,            \* 4.10, 2024-01-02
      <<Blank, Blank>>,                                  \* blank row
      <<DateCell(1, 20240101), Num(400000)>>,            \* 01 Jan 2024, 4.00
      <<DateCell(3, 20240102), Num(410000)>>,            \* 02/01/2024, 4.10
      <<DateCell(4, 20240101), Num(410000)>>,            \* 2024-01-01 again, 4.10
      <<DateCell(1, 20240101)>>,                         \* short row
      <<DateCell(2, 20240102), Blank>>,                  \* empty value cell
      <<Blank, Num(400000)>>,                            \* empty date cell
      <<Junk, Num(400000)>>,                             \* unparsable date
      <<DateCell(1, 20240102), Junk>>,                   \* unparsable value
      <<DateCell(1, 20230229), Num(400000)>>,            \* 29 Feb 2023: no such day
      <<DateCell(2, 20231202), Num(0)>>,                 \* 02 December 2023, 0.0
      <<DateCell(4, 20231225), Num(400006)>> }           \* 2023-12-25, 4.00006

QuoteYields == {489994, 489996, 550000, 550006}
QuoteTimes  == { LastTime("absent", 0), LastTime("null", 0), LastTime("empty", 0),
                 LastTime("junk", 0), LastTime("ts", 20231226),
                 LastTime("ts", 20240102) }
QuoteHighs  == {None, 560000}
QuoteLows   == {None, 430000}

\* dicts a caller can hand to generate_dashboard
LiveQuotes ==
    { Quote(y, lt, hi, lo) : y \in QuoteYields \cup {None}, lt \in QuoteTimes,
                             hi \in QuoteHighs, lo \in QuoteLows }

\* what fetch_live_gilt_yield returns: None, or a dict that has a yield and
\* every key (lines 224-243)
FetchedQuotes ==
    { NoLive,
      Quote(489996, LastTime("ts", 20240102), 560000, 430000),
      Quote(550006, LastTime("ts", 20240102), None, None),
      Quote(489996, LastTime("empty", 0), 560000, None),
      Quote(550006, LastTime("null", 0), None, None) }

SeriesDates  == {20231202, 20231225, 20231227, 20240102}
SeriesYields == {0, 45000, 46000}
Observations == { Point(d, y) : d \in SeriesDates, y \in SeriesYields }

\* series as parse_boe_csv leaves them: ascending by date string
SortedSeries(n) ==
    { s \in [1..n -> Observations] : \A i \in 1..(n - 1) : s[i].date <= s[i + 1].date }

SeriesInputs == UNION { SortedSeries(n) : n \in 0..MaxLen }

TargetDates == {20231203, 20231226, 20240101, 20240102}

\* a series with an observation read from the cell "inf"
InfSeries == <<Point(20231229, 40000), Point(20231230, inf), Point(20231231, 45000)>>

\* series behind the pages the calculator runs on: a short one, and the
\* daily series of December 2023, one observation longer than the window of
\* the value moving average, 4.00 for its first k days and 4.50 after
DecemberSeries(k) ==
    [i \in 1..(ValueWindow + 1) |-> Point(20231200 + i, IF i <= k THEN 40000 ELSE 45000)]

ShortSeries == <<Point(20231229, 40000), Point(20231231, 45000)>>

\* with no quote, with a quote 0.50 above the series (applied), with one
\* 0.10 above it (rejected, but still the headline) and with one of five
\* fractional digits, 4.99996 (applied)
CalcInputs ==
    { <<ShortSeries, NoLive>>,
      <<InfSeries, NoLive>>,
      <<ShortSeries, Quote(460000, LastTime("ts", 20231231), 560000, 430000)>>,
      <<ShortSeries, Quote(499996, LastTime("ts", 20231231), 560000, 430000)>>,
      <<DecemberSeries(1), Quote(500000, LastTime("ts", 20231231), 560000, 430000)>>,
      <<DecemberSeries(ValueWindow), NoLive>> }

\* what the user can leave in a text field
RentTexts ==
    { EmptyText, Txt("zero", Frac(0, 1), 0),
      Txt("pos", Frac(12, 1), 12), Txt("neg", Frac(12, 1), 12) }

YieldTexts ==
    { Txt("zero", Frac(0, 1), 0),
      Txt("pos", Frac(11, 2), 550), Txt("pos", Frac(1, 2), 50),
      Txt("neg", Frac(11, 2), 550) }

PriceTexts ==
    { Txt("zero", Frac(0, 1), 0),
      Txt("pos", Frac(240, 1), 240), Txt("neg", Frac(240, 1), 240) }

\* what a refresh of the server can meet: the endpoint unreachable, a
\* response with the header alone, and two responses that give a page
ServerFetches ==
    { [http_ok |-> FALSE, rows |-> <<>>, live |-> NoLive],
      [http_ok |-> TRUE, rows |-> << <<DateHdr, CodeHdr>> >>, live |-> NoLive],
      [http_ok |-> TRUE,
       rows |-> << <<DateHdr, CodeHdr>>, <<DateCell(1, 20240101), Num(400000)>> >>,
       live |-> NoLive],
      [http_ok |-> TRUE,
       rows |-> << <<DateHdr, CodeHdr>>, <<DateCell(1, 20240101), Num(400000)>>,
                   <<DateCell(3, 20240102), Num(410000)>> >>,
       live |-> Quote(489996, LastTime("ts", 20240102), 560000, 430000)] }

\* paths a client asks for
Paths == {"/", "/index.html", "/favicon.ico"}

\* seconds that pass between two events
Ticks == {150, 151}

\* arguments of computeSMA: series of up to MaxData yields with windows of
\* 1..MaxWindow, and the yields of the December page with the window of 30
SMAValues == {Frac(0, 1), Frac(9, 2), Frac(23, 5)}

SMAInputs ==
    { SMACall(data, window, <<>>, FALSE) :
        data \in UNION { [1..n -> SMAValues] : n \in 0..MaxData },
        window \in 1..MaxWindow }
    \cup
    { SMACall([i \in 1..Len(s) |-> Frac(s[i].yield, 10000)], ValueWindow, <<>>, FALSE) :
        s \in {DecemberSeries(1), ShortSeries} }

\* positions of the slider (min 0, max 100, step 5: line 1416)
SliderValues == {0, 50, 100}

-----------------------------------------------------------------------------
(* Spec: one pass of the tracker over a response received row by row *)

Init ==
    /\ feed = <<>>
    /\ data_points = <<>>
    /\ live_data = NoLive
    /\ stats = EmptyDict
    /\ dash = NoDash
    /\ nearest = NoNearest
    /\ result = NoResult
    /\ pc = "response"
    /\ page = NoPage
    /\ calc = CalcInit
    /\ srv = ServerInit
    /\ chart = NoChart

\* the response body grows by one row
ReceiveRow(row) ==
    /\ pc = "response"
    /\ Len(feed) < MaxRows
    /\ feed' = Append(feed, row)
    /\ UNCHANGED <<data_points, live_data, stats, dash, nearest, result, pc>>
    /\ UNCHANGED <<page, calc, srv, chart>>

\* main(): the whole pass over the response
Main(http_ok, live) ==
    /\ pc = "response"
    /\ \E r \in {main(http_ok, feed, live)} :
       /\ data_points' = r.pts
       /\ stats' = r.st
       /\ dash' = r.d
       /\ result' = r.out
       /\ live_data' = IF r.out.live_fetched THEN live ELSE NoLive
    /\ pc' = "done"
    /\ UNCHANGED <<feed, nearest>>
    /\ UNCHANGED <<page, calc, srv, chart>>

Next ==
    \/ \E row \in FeedRows : ReceiveRow(row)
    \/ \E http_ok \in BOOLEAN, live \in FetchedQuotes : Main(http_ok, live)

Spec == Init /\ [][Next]_vars

-----------------------------------------------------------------------------
(* SpecCalc: a generated page open in the browser, the user at the          *)
(* calculator                                                               *)

core == <<feed, data_points, live_data, stats, dash, nearest, result, pc>>

InitCalc ==
    /\ feed = <<>>
    /\ \E in \in CalcInputs : data_points = in[1] /\ live_data = in[2]
    /\ stats = compute_stats(data_points)
    /\ dash = generate_dashboard(data_points, stats, live_data)
    /\ dash.written
    /\ nearest = NoNearest
    /\ result = NoResult
    /\ pc = "calc"
    /\ page = PageOf(dash)
    /\ calc = CalcInit
    /\ srv = ServerInit
    /\ chart = yield_chart(page)

\* an event of the calculator: the field is set, then recalculate runs
Handle(c) ==
    /\ pc = "calc"
    /\ \E r \in {recalculate(c, page)} : calc' = r
    /\ UNCHANGED <<core, page, srv, chart>>

\* lines 1995-2001
RentInput(text) == Handle([calc EXCEPT !.rentText = regroup(text)])

\* line 2003
YieldInput(text) == Handle([calc EXCEPT !.yieldText = text])

\* line 2004
PassThroughInput(v) == Handle([calc EXCEPT !.passThrough = v])

\* lines 2006-2012
PriceInput(text) == Handle([calc EXCEPT !.priceText = regroup(text)])

\* lines 2014-2022
ModeYieldClick == Handle([calc EXCEPT !.inputMode = "yield"])

\* lines 2024-2032
ModePriceClick == Handle([calc EXCEPT !.inputMode = "price"])

NextCalc ==
    \/ \E text \in RentTexts : RentInput(text)
    \/ \E text \in YieldTexts : YieldInput(text)
    \/ \E v \in SliderValues : PassThroughInput(v)
    \/ \E text \in PriceTexts : PriceInput(text)
    \/ ModeYieldClick
    \/ ModePriceClick

SpecCalc == InitCalc /\ [][NextCalc]_vars

-----------------------------------------------------------------------------
(* SpecServer: the dashboard server and its clients *)

InitServer ==
    /\ feed = <<>>
    /\ data_points = <<>>
    /\ live_data = NoLive
    /\ stats = EmptyDict
    /\ dash = NoDash
    /\ nearest = NoNearest
    /\ result = NoResult
    /\ pc = "serve"
    /\ page = NoPage
    /\ calc = CalcInit
    /\ srv = ServerInit
    /\ chart = NoChart

\* a client connects and sends its request
Connect(path) ==
    /\ pc = "serve"
    /\ Len(srv.queue) < MaxWaiting
    /\ srv' = [srv EXCEPT !.queue = Append(@, Conn(path, srv.clock, srv.cache))]
    /\ UNCHANGED <<core, page, calc, chart>>

\* the server loop hands the next connection to a handler
BeginRequest ==
    /\ pc = "serve"
    /\ srv.queue # <<>>
    /\ idle(srv.handlers)
    /\ srv' = do_GET_begin(srv)
    /\ UNCHANGED <<core, page, calc, chart>>

\* fetch_and_generate returns or raises in a handler, and the handler ends
EndRefresh(i, fetch, read_ok) ==
    /\ pc = "serve"
    /\ i \in 1..Len(srv.handlers)
    /\ \E r \in {fetch_and_generate(fetch.http_ok, fetch.rows, fetch.live)} :
           srv' = do_GET_end(srv, i, r.out.error = "none" /\ read_ok, PageOf(r.d))
    /\ UNCHANGED <<core, page, calc, chart>>

\* time passes, but not while a connection waits for an idle server
Tick(d) ==
    /\ pc = "serve"
    /\ srv.clock + d <= MaxClock
    /\ ~(srv.queue # <<>> /\ idle(srv.handlers))
    /\ srv' = [srv EXCEPT !.clock = @ + d]
    /\ UNCHANGED <<core, page, calc, chart>>

NextServer ==
    \/ \E path \in Paths : Connect(path)
    \/ BeginRequest
    \/ \E i \in 1..MaxWaiting, fetch \in ServerFetches, read_ok \in BOOLEAN :
           EndRefresh(i, fetch, read_ok)
    \/ \E d \in Ticks : Tick(d)

SpecServer == InitServer /\ [][NextServer]_vars

-----------------------------------------------------------------------------
(* SpecSMA: computeSMA applied to a series and a window *)

InitSMA ==
    /\ feed = <<>>
    /\ data_points = <<>>
    /\ live_data = NoLive
    /\ stats = EmptyDict
    /\ dash = NoDash
    /\ nearest = NoNearest
    /\ result = NoResult
    /\ pc = "sma"
    /\ page = NoPage
    /\ calc = CalcInit
    /\ srv = ServerInit
    /\ chart \in SMAInputs

CallComputeSMA ==
    /\ pc = "sma"
    /\ \E r \in {computeSMA(chart.data, chart.window)} :
           chart' = SMACall(chart.data, chart.window, r, TRUE)
    /\ pc' = "smoothed"
    /\ UNCHANGED <<feed, data_points, live_data, stats, dash, nearest, result>>
    /\ UNCHANGED <<page, calc, srv>>

NextSMA == CallComputeSMA

SpecSMA == InitSMA /\ [][NextSMA]_vars

-----------------------------------------------------------------------------
(* SpecSeries: the functions of the core applied to a parsed series *)

InitSeries ==
    /\ feed = <<>>
    /\ data_points \in SeriesInputs
    /\ live_data = NoLive
    /\ stats = EmptyDict
    /\ dash = NoDash
    /\ nearest = NoNearest
    /\ result = NoResult
    /\ pc = "series"
    /\ page = NoPage
    /\ calc = CalcInit
    /\ srv = ServerInit
    /\ chart = NoChart

CallFindNearest(target) ==
    /\ pc = "series"
    /\ nearest' = [target |-> strptime(target),
                   value |-> find_nearest_value(data_points, strptime(target))]
    /\ pc' = "nearest"
    /\ UNCHANGED <<feed, data_points, live_data, stats, dash, result>>
    /\ UNCHANGED <<page, calc, srv, chart>>

CallComputeStats ==
    /\ pc = "series"
    /\ stats' = compute_stats(data_points)
    /\ pc' = "stats"
    /\ UNCHANGED <<feed, data_points, live_data, dash, nearest, result>>
    /\ UNCHANGED <<page, calc, srv, chart>>

\* generate_dashboard is only called on a non-empty series (line 2059)
CallGenerateDashboard(live) ==
    /\ pc = "stats"
    /\ data_points # <<>>
    /\ live_data' = live
    /\ dash' = generate_dashboard(data_points, stats, live)
    /\ pc' = "dashboard"
    /\ UNCHANGED <<feed, data_points, stats, nearest, result>>
    /\ UNCHANGED <<page, calc, srv, chart>>

NextSeries ==
    \/ \E target \in TargetDates : CallFindNearest(target)
    \/ CallComputeStats
    \/ \E live \in LiveQuotes \cup {NoLive} : CallGenerateDashboard(live)

SpecSeries == InitSeries /\ [][NextSeries]_vars

-----------------------------------------------------------------------------
(* Vocabulary of the properties, stated on the rows and the series          *)
(* themselves rather than through the operators above                       *)

\* row has a cell of kind k
HasCell(row, k) == \E c \in 1..Len(row) : row[c].k = k

\* the header row of the response, 0 when it has none: the first row with a
\* DATE cell and a series-code cell
HeaderRow(rows) ==
    IF \E i \in 1..Len(rows) : HasCell(rows[i], "DATE") /\ HasCell(rows[i], "code")
    THEN CHOOSE i \in 1..Len(rows) :
             /\ HasCell(rows[i], "DATE") /\ HasCell(rows[i], "code")
             /\ \A j \in 1..(i - 1) : ~(HasCell(rows[j], "DATE") /\ HasCell(rows[j], "code"))
    ELSE 0

FirstCell(row, k) == CHOOSE c \in 1..Len(row) :
                         row[c].k = k /\ \A b \in 1..(c - 1) : row[b].k # k

\* rows after the header whose date cell and value cell exist, are not empty
\* and parse
ValidRows(rows) ==
    IF HeaderRow(rows) = 0 THEN {}
    ELSE LET h  == HeaderRow(rows)
             dc == FirstCell(rows[h], "DATE")
             yc == FirstCell(rows[h], "code")
         IN  { i \in (h + 1)..Len(rows) :
                   /\ dc <= Len(rows[i]) /\ yc <= Len(rows[i])
                   /\ rows[i][dc].k = "date" /\ rows[i][dc].fmt \in 1..4
                   /\ ValidDate(rows[i][dc].n)
                   /\ rows[i][yc].k = "num" }

RowDate(rows, i) == rows[i][FirstCell(rows[HeaderRow(rows)], "DATE")].n

\* day distance of the i-th observation to the target datetime
Distance(pts, i, target) == Abs(strptime(pts[i].date) - target)

\* v is the value of the first observation at minimal distance to target
IsNearest(pts, target, v) ==
    \E i \in 1..Len(pts) :
        /\ v = pts[i].yield
        /\ \A j \in 1..Len(pts) : Distance(pts, i, target) <= Distance(pts, j, target)
        /\ \A j \in 1..(i - 1) : Distance(pts, j, target) > Distance(pts, i, target)

\* u (units) is x (fine units) rounded to 4 fractional digits
IsRounded(u, x) == 2 * Abs(u * Fine - x) <= Fine

-----------------------------------------------------------------------------
(* Properties *)

\* C1: in generate_dashboard with a live quote, the spread computed at line
\* 276 is the live yield minus the nearest-date-matched series value,
\* rounded to 4 fractional digits, and the adjustment is applied
\* (spread_ok) if and only if 0.40 <= spread <= 1.00, endpoints included.
C1_SpreadBand ==
    (pc = "dashboard" /\ dash.has_live /\ dash.spread_computed # None) =>
        /\ IsNearest(data_points, dash.cnbc_date, dash.matched_boe)
        /\ IsRounded(dash.spread_computed, live_data.yield - dash.matched_boe * Fine)
        /\ dash.spread_ok <=> (4000 <= dash.spread_computed /\ dash.spread_computed <= 10000)

\* the lower endpoint of the band is reached, through a rounding, and applied
C1_Witness ==
    /\ pc = "dashboard" /\ dash.has_live
    /\ live_data.yield = 489996
    /\ dash.spread_computed = 4000
    /\ dash.spread_ok

\* C2: when the spread is within the band, the adjusted series has the
\* length and the dates of the input series in the same order, every
\* adjusted value is the original value plus the one spread, and the
\* headline value is the live quote's value.
C2_UniformShift ==
    (pc = "dashboard" /\ dash.spread_ok) =>
        /\ Len(dash.yields) = Len(data_points)
        /\ Len(dash.dates) = Len(data_points)
        /\ \A i \in 1..Len(data_points) :
               /\ dash.dates[i] = data_points[i].date
               /\ dash.yields[i] = data_points[i].yield + dash.spread_computed
        /\ dash.current_yield = live_data.yield

\* a three-point series was shifted by an in-band spread and the page written
C2_Witness ==
    /\ pc = "dashboard" /\ dash.spread_ok /\ dash.written
    /\ Len(data_points) = 3
    /\ dash.spread_computed = 9000
    /\ dash.yields[1] # dash.yields[3]

\* C3: when a live quote is present and the spread is outside the band, the
\* adjusted series is value for value the input series, spread_applied is
\* false, the headline is still the live value, a warning is emitted, and
\* the pass continues: generate_dashboard returns.
C3_RejectionNotFatal ==
    (pc = "dashboard" /\ dash.has_live /\ dash.spread_computed # None
        /\ ~(4000 <= dash.spread_computed /\ dash.spread_computed <= 10000)) =>
        /\ dash.yields = [i \in 1..Len(data_points) |-> data_points[i].yield]
        /\ ~dash.spread_ok
        /\ dash.current_yield = live_data.yield
        /\ dash.warned
        /\ dash.raised = "none"

\* C4: with no live quote, or one whose value is absent, the headline value
\* is the value of the latest observation, the charted series is the input
\* series unchanged, and spread_applied is false.
C4_SeriesOnly ==
    (pc = "dashboard" /\ (~live_data.some \/ live_data.yield = None)) =>
        /\ dash.current_yield = data_points[Len(data_points)].yield * Fine
        /\ dash.yields = [i \in 1..Len(data_points) |-> data_points[i].yield]
        /\ dash.dates = [i \in 1..Len(data_points) |-> data_points[i].date]
        /\ ~dash.spread_ok

\* a quote dict without a value was handed in and the page was written
C4_Witness ==
    /\ pc = "dashboard" /\ live_data.some /\ live_data.yield = None
    /\ live_data.last_time.k = "ts"
    /\ Len(data_points) = 2
    /\ dash.written

\* C5: the series returned by parse_boe_csv has unique, strictly increasing
\* dates.
C5_StrictlyIncreasingDates ==
    (pc = "done" /\ result.parsed) =>
        \A i \in 1..(Len(data_points) - 1) : data_points[i].date < data_points[i + 1].date

\* C6: parse_boe_csv returns for every feed, and its output holds exactly
\* one observation for each row after the header whose date cell and value
\* cell exist, are non-empty and parse; every other row contributes nothing.
C6_OneObservationPerValidRow ==
    (pc = "done" /\ result.error # "RequestException") =>
        /\ result.parsed
        /\ Len(data_points) = Cardinality(ValidRows(feed))
        /\ \A d \in {data_points[i].date : i \in 1..Len(data_points)}
                      \cup {RowDate(feed, i) : i \in ValidRows(feed)} :
               Cardinality({i \in 1..Len(data_points) : data_points[i].date = d})
                   = Cardinality({i \in ValidRows(feed) : RowDate(feed, i) = d})

\* a response with a header, a valid row and a malformed row was parsed
C6_Witness ==
    /\ pc = "done" /\ result.parsed
    /\ Len(feed) = 3
    /\ HeaderRow(feed) = 1
    /\ Cardinality(ValidRows(feed)) = 1
    /\ Len(data_points) = 1

\* C7: when the feed yields zero valid observations, fetch_and_generate
\* reports an error to its caller and aborts before compute_stats,
\* save_data, fetch_live_gilt_yield or generate_dashboard run: no
\* statistics, no data snapshot, no dashboard file.
C7_EmptyFeedAborts ==
    (pc = "done" /\ result.parsed /\ ValidRows(feed) = {}) =>
        /\ result.error = "RuntimeError"
        /\ result.exit_code = 1
        /\ ~result.stats_computed
        /\ ~result.data_saved
        /\ ~result.live_fetched
        /\ ~result.dashboard_called
        /\ ~result.dashboard_written
        /\ stats = EmptyDict
        /\ dash = NoDash

\* a response with a header and only malformed rows was fetched
C7_Witness ==
    /\ pc = "done" /\ result.parsed
    /\ Len(feed) = 3 /\ HeaderRow(feed) = 1
    /\ ValidRows(feed) = {}
    /\ result.error = "RuntimeError"

\* C8: an empty feed is the only fatal condition of a pass: for every
\* non-empty parsed series, with or without a live quote, compute_stats
\* followed by generate_dashboard completes without raising.
C8_OnlyEmptyFeedFatal ==
    (pc = "done" /\ result.parsed /\ data_points # <<>>) => result.error = "none"

\* C9: find_nearest_value returns, for a non-empty series and a target
\* date, the value of an observation at minimal absolute day difference to
\* the target, the first such observation in series order on a tie.
C9_NearestFirstWins ==
    (pc = "nearest" /\ data_points # <<>>) =>
        IsNearest(data_points, nearest.target, nearest.value)

\* two observations of different value tie at one day from the target and
\* the value of the earlier one was returned
C9_Witness ==
    /\ pc = "nearest" /\ Len(data_points) = 3
    /\ Distance(data_points, 2, nearest.target) = 1
    /\ Distance(data_points, 3, nearest.target) = 1
    /\ Distance(data_points, 1, nearest.target) > 1
    /\ data_points[2].yield # data_points[3].yield
    /\ nearest.value = data_points[2].yield

\* C10: for every non-empty series compute_stats returns week_change,
\* month_change and ytd_change that are all non-None.
C10_ChangesNeverNone ==
    (pc = "done" /\ result.stats_computed) =>
        /\ stats.week_change # None
        /\ stats.month_change # None
        /\ stats.ytd_change # None

\* C11: in compute_stats latest is the last element of the series and prior
\* the second-to-last, or latest itself when the series has exactly one
\* observation; daily_change = latest - prior, hence 0 for a one-observation
\* series.
C11_LatestAndPrior ==
    (pc = "stats" /\ data_points # <<>>) =>
        LET n == Len(data_points) IN
        /\ stats.current_yield = data_points[n].yield
        /\ stats.current_date = data_points[n].date
        /\ n >= 2 => stats.previous_yield = data_points[n - 1].yield
        /\ n = 1 => stats.previous_yield = data_points[1].yield
        /\ stats.daily_change = stats.current_yield - stats.previous_yield
        /\ n = 1 => stats.daily_change = 0
        /\ stats.data_points_count = n

\* statistics of a three-point series whose last two values differ from
\* each other and from the first
C11_Witness ==
    /\ pc = "stats" /\ Len(data_points) = 3
    /\ data_points[1].yield # data_points[2].yield
    /\ data_points[2].yield # data_points[3].yield
    /\ stats.daily_change = data_points[3].yield - data_points[2].yield
    /\ stats.daily_change # 0

\* the target datetimes of compute_stats, from the latest observation
WeekAgoTarget(pts)   == strptime(pts[Len(pts)].date) - 7
MonthAgoTarget(pts)  == strptime(pts[Len(pts)].date) - 30
YearStartTarget(pts) == strptime(YearOf(pts[Len(pts)].date) * 10000 + 101)

\* c is the latest value minus the value nearest to target
IsChange(pts, target, c) ==
    \E v \in {pts[i].yield : i \in 1..Len(pts)} :
        IsNearest(pts, target, v) /\ c = pts[Len(pts)].yield - v

\* C12: week_change, month_change and ytd_change are the latest value minus
\* the nearest-date lookup value for latest date - 7 days, latest date - 30
\* days and 1 January of the latest date's year.
C12_ChangesAreDifferences ==
    (pc = "stats" /\ data_points # <<>>) =>
        /\ IsChange(data_points, WeekAgoTarget(data_points), stats.week_change)
        /\ IsChange(data_points, MonthAgoTarget(data_points), stats.month_change)
        /\ IsChange(data_points, YearStartTarget(data_points), stats.ytd_change)

\* C13: for a non-empty series low_12m <= every value <= high_12m, both
\* occur in the series, and high_date / low_date are the dates of the first
\* observation in series order that attains the maximum / minimum.
C13_Extrema ==
    (pc = "stats" /\ data_points # <<>>) =>
        LET n == Len(data_points) IN
        /\ \A i \in 1..n : stats.low_12m <= data_points[i].yield
                           /\ data_points[i].yield <= stats.high_12m
        /\ \E i \in 1..n :
               /\ data_points[i].yield = stats.high_12m
               /\ \A j \in 1..(i - 1) : data_points[j].yield # stats.high_12m
               /\ stats.high_date = data_points[i].date
        /\ \E i \in 1..n :
               /\ data_points[i].yield = stats.low_12m
               /\ \A j \in 1..(i - 1) : data_points[j].yield # stats.low_12m
               /\ stats.low_date = data_points[i].date

\* the maximum is attained on the first and on the last of three different
\* dates, and the first date is reported
C13_Witness ==
    /\ pc = "stats" /\ Len(data_points) = 3
    /\ data_points[1].date < data_points[3].date
    /\ data_points[1].yield = data_points[3].yield
    /\ data_points[2].yield < data_points[1].yield
    /\ stats.high_12m = data_points[1].yield
    /\ stats.high_date = data_points[1].date

-----------------------------------------------------------------------------
(* The calculator: the numbers the user asked for, read off the fields *)

\* R, Y and T of the valuation model, and the base value V = R/(Y/100)
ValidInputs ==
    /\ pc = "calc"
    /\ calc.rentText.k = "pos"
    /\ calc.inputMode = "yield" => calc.yieldText.k = "pos"
    /\ calc.inputMode = "price" => calc.priceText.k = "pos"

InputR == calc.rentText.v

InputY ==
    IF calc.inputMode = "price"
    THEN FDiv(FMul(Hundred, InputR), calc.priceText.v)
    ELSE calc.yieldText.v

InputT == Frac(calc.passThrough, 100)

InputV == FDiv(FMul(Hundred, InputR), InputY)

ScenarioDeltas == {-75, -50, -25, 0, 25, 50, 75}

ScenarioYield(delta) == FAdd(InputY, Frac(delta * calc.passThrough, 10000))

\* C14: for valid inputs the scenario table has a row for delta exactly when
\* new_yield = Y + delta*T/100 is positive; a row's value times new_yield/100
\* is R, its value_delta is value - V, its value_delta_pct times V is
\* 100*value_delta; rows are in ascending delta order.
C14_ScenarioTable ==
    ValidInputs =>
        /\ \A delta \in ScenarioDeltas :
               (\E i \in 1..Len(calc.rows) : calc.rows[i].deltaBps = delta)
                   <=> Positive(ScenarioYield(delta))
        /\ \A i \in 1..Len(calc.rows) :
               LET row == calc.rows[i]
               IN  /\ row.deltaBps \in ScenarioDeltas
                   /\ FMul(row.value, ScenarioYield(row.deltaBps)) = FMul(Hundred, InputR)
                   /\ row.change = FSub(row.value, InputV)
                   /\ FMul(row.changePct, InputV) = FMul(Hundred, row.change)
        /\ \A i, j \in 1..Len(calc.rows) :
               i < j => calc.rows[i].deltaBps < calc.rows[j].deltaBps

\* valid inputs with a scenario left out and a row below the base value
C14_Witness ==
    /\ ValidInputs
    /\ calc.content
    /\ Len(calc.rows) \in 1..6
    /\ \E i \in 1..Len(calc.rows) : calc.rows[i].change.n < 0

\* what the user left in the fields the current mode reads is missing, zero
\* or negative
NotPositive(text) == text.k \in {"empty", "zero", "neg"}

InvalidSupplied ==
    /\ pc = "calc"
    /\ \/ NotPositive(calc.rentText)
       \/ calc.inputMode = "yield" /\ NotPositive(calc.yieldText)
       \/ calc.inputMode = "price" /\ NotPositive(calc.priceText)

\* C15: when the rent, the yield (yield mode) or the guide price (price mode)
\* the user supplied is missing, zero or negative, the calculation is
\* rejected: the placeholder is shown and the results panel and the value
\* chart are hidden.
C15_InvalidInputRejected ==
    InvalidSupplied => calc.placeholder /\ ~calc.content /\ ~calc.chart

\* C16: every value the valuation model has emitted is strictly positive:
\* the base value, each scenario row's value, each projected historical
\* value that is not absent (the marker of the latest one included) and each
\* point of the value moving average that is not absent.
C16_ValuesPositive ==
    pc = "calc" =>
        /\ calc.baseValue # Null => Positive(calc.baseValue)
        /\ \A i \in 1..Len(calc.rows) : Positive(calc.rows[i].value)
        /\ \A i \in 1..Len(calc.impliedValues) :
               calc.impliedValues[i] # Null => Positive(calc.impliedValues[i])
        /\ calc.todayVal # Null => Positive(calc.todayVal)
        /\ \A i \in 1..Len(calc.valueSMA30) :
               calc.valueSMA30[i] # Null => Positive(calc.valueSMA30[i])

\* the charted yields and the headline yield of the page, as numbers
ChartedYield(i) ==
    IF dash.yields[i] = inf THEN Infinity ELSE Frac(dash.yields[i], 10000)

HeadlineYield == Frac(dash.current_yield, 10000 * Fine)

AdjustedYield(i) ==
    FAdd(InputY, FMul(FSub(ChartedYield(i), HeadlineYield), InputT))

\* C17: the projection has one entry per charted yield y_i, absent when
\* adjusted_yield_i = Y + (y_i - headline yield)*T is <= 0 and R divided by
\* adjusted_yield_i/100 otherwise.
C17_Projection ==
    ValidInputs /\ calc.chart =>
        /\ Len(calc.impliedValues) = Len(dash.yields)
        /\ \A i \in 1..Len(dash.yields) :
               IF LeqZero(AdjustedYield(i))
               THEN calc.impliedValues[i] = Null
               ELSE calc.impliedValues[i] =
                        FDiv(InputR, FDiv(AdjustedYield(i), Hundred))

\* a projection over spread-adjusted yields that has a gap and a value
C17_Witness ==
    /\ ValidInputs /\ calc.chart
    /\ dash.spread_ok
    /\ \E i, j \in 1..Len(calc.impliedValues) :
           /\ calc.impliedValues[i] = Null
           /\ Positive(calc.impliedValues[j])

-----------------------------------------------------------------------------
(* The dashboard server *)

\* the request answered last asked for the dashboard
DashboardAnswered == pc = "serve" /\ srv.last.kind \in {"hit", "refreshed", "failed"}

\* C18: a dashboard request whose refresh fails while a page is cached
\* leaves the cached page and the cache timestamp as they were before the
\* request and is answered with that page.
C18_FailedRefreshKeepsCache ==
    (pc = "serve" /\ srv.last.kind = "failed" /\ srv.last.cache_before.html # NoPage) =>
        /\ srv.cache = srv.last.cache_before
        /\ srv.last.status = 200
        /\ srv.last.body = srv.last.cache_before.html

\* a refresh has failed with a page in the cache, more than CACHE_TTL old
C18_Witness ==
    /\ pc = "serve"
    /\ srv.last.kind = "failed"
    /\ srv.last.cache_before.html # NoPage
    /\ srv.last.now - srv.last.cache_before.time > CACHE_TTL

\* C19: at most one recomputation is in flight at any time, however many
\* requests have arrived.
C19_OneRefreshInFlight ==
    pc = "serve" => Len(srv.handlers) <= 1

\* a recomputation is in flight and two more dashboard requests have arrived
\* since the cached page went stale
C19_Witness ==
    /\ pc = "serve"
    /\ Len(srv.handlers) = 1
    /\ srv.handlers[1].before.html # NoPage
    /\ Len(srv.queue) = 2
    /\ \A i \in 1..Len(srv.queue) :
           /\ dashboard_path(srv.queue[i].path)
           /\ srv.queue[i].cache.html # NoPage
           /\ srv.queue[i].arrived - srv.queue[i].cache.time > CACHE_TTL

\* a page was cached when the request arrived, at most 300 seconds after the
\* start of the last successful refresh
ArrivedFresh ==
    /\ srv.last.cache_at_arrival.html # NoPage
    /\ srv.last.arrived - srv.last.cache_at_arrival.time <= 300

-----------------------------------------------------------------------------
(* Smoothing *)

\* data[j] + ... + data[i], added from the right
RECURSIVE RangeSum(_, _, _)
RangeSum(data, j, i) ==
    IF i < j THEN Frac(0, 1) ELSE FAdd(RangeSum(data, j, i - 1), data[i])

\* C21: computeSMA(data, W) has the length of data; entry i (from 0) is
\* absent for i < W-1 and W times entry i is the sum of the W entries
\* data[i-W+1..i] for i >= W-1; with fewer than W entries all are absent.
C21_TrailingMean ==
    chart.returned =>
        /\ Len(chart.sma) = Len(chart.data)
        /\ \A k \in 1..Len(chart.data) :
               IF k < chart.window
               THEN chart.sma[k] = Null
               ELSE /\ chart.sma[k] # Null
                    /\ FMul(chart.sma[k], Frac(chart.window, 1))
                           = RangeSum(chart.data, k - chart.window + 1, k)
        /\ Len(chart.data) < chart.window =>
               \A k \in 1..Len(chart.data) : chart.sma[k] = Null

\* a window of several unequal entries, with absent entries before it
C21_Witness ==
    /\ chart.returned
    /\ chart.window > 1
    /\ Len(chart.data) > chart.window
    /\ chart.data[Len(chart.data)] # chart.data[Len(chart.data) - 1]
    /\ chart.data[1] # chart.data[Len(chart.data)]
    /\ chart.sma[1] = Null
    /\ chart.sma[Len(chart.data)] # Null

\* the positions of the window ending at k whose projected value is present
PresentIn(vals, k) == { j \in (k - 29)..k : vals[j] # Null }

\* the sum of the present values among vals[j..i]
RECURSIVE PresentSum(_, _, _)
PresentSum(vals, j, i) ==
    IF i < j THEN Frac(0, 1)
    ELSE IF vals[i] = Null THEN PresentSum(vals, j, i - 1)
    ELSE FAdd(PresentSum(vals, j, i - 1), vals[i])

\* C22: the value moving average has the length of the projection; entry i
\* (from 0) is absent for i < 29; for i >= 29 it is absent exactly when all
\* 30 projected values at i-29..i are absent, and otherwise it is the mean
\* of the present ones among them.
C22_PartialWindowMean ==
    pc = "calc" =>
        /\ Len(calc.valueSMA30) = Len(calc.impliedValues)
        /\ \A k \in 1..Len(calc.impliedValues) :
               IF k < 30
               THEN calc.valueSMA30[k] = Null
               ELSE LET present == PresentIn(calc.impliedValues, k)
                    IN  IF present = {}
                        THEN calc.valueSMA30[k] = Null
                        ELSE /\ calc.valueSMA30[k] # Null
                             /\ FMul(calc.valueSMA30[k], Frac(Cardinality(present), 1))
                                    = PresentSum(calc.impliedValues, k - 29, k)

\* a window of 30 absent values with an absent average, and a window with
\* absent and present values with an average
C22_Witness ==
    /\ pc = "calc" /\ calc.chart
    /\ \E k, m \in 30..Len(calc.impliedValues) :
           /\ PresentIn(calc.impliedValues, k) = {}
           /\ calc.valueSMA30[k] = Null
           /\ PresentIn(calc.impliedValues, m) # {}
           /\ Cardinality(PresentIn(calc.impliedValues, m)) < 30
           /\ calc.valueSMA30[m] # Null

-----------------------------------------------------------------------------
(* The live quote and its fields *)

\* a live quote with a value was handed to generate_dashboard
QuoteReconciled ==
    pc = "dashboard" /\ live_data.some /\ live_data.yield # None

\* the timestamp of the quote holds a date that parses
TimestampParses ==
    live_data.last_time.k = "ts" /\ ValidDate(live_data.last_time.date)

\* C23: with a live quote, the date matched against the series is the date
\* part of the quote's timestamp; when the timestamp is absent, null, empty
\* or unparsable it is the latest date of the series; and the reconciliation
\* goes on to compute a spread.
C23_EffectiveDate ==
    QuoteReconciled =>
        /\ dash.cnbc_date = IF TimestampParses
                            THEN strptime(live_data.last_time.date)
                            ELSE strptime(data_points[Len(data_points)].date)
        /\ dash.spread_computed # None

\* C24: for a non-empty series generate_dashboard completes with no live
\* quote, and with a live quote that has a value whichever of its other
\* fields are absent; the 12-month high and low come from the series when
\* the quote has no period high.
C24_QuoteFieldsOptional ==
    (pc = "dashboard" /\ data_points # <<>>
        /\ (~live_data.some \/ live_data.yield # None)) =>
        /\ dash.raised = "none"
        /\ dash.written
        /\ (~live_data.some \/ live_data.yr_high = None) =>
               /\ dash.high_12m = stats.high_12m * Fine
               /\ dash.low_12m = stats.low_12m * Fine

\* the same, for series on which compute_stats leaves no change empty and
\* quotes whose timestamp is not null
QuoteFieldsOptionalElsewhere ==
    (pc = "dashboard" /\ stats.month_change # None /\ live_data.last_time.k # "null") =>
        C24_QuoteFieldsOptional

-----------------------------------------------------------------------------
(* The parser *)

\* the value cell of valid row i of the response
RowValue(rows, i) == rows[i][FirstCell(rows[HeaderRow(rows)], "code")].n

\* f places the valid rows of the response one to one on the observations
Places(f, rows, pts) ==
    /\ \A i, j \in DOMAIN f : i # j => f[i] # f[j]
    /\ \A i \in DOMAIN f :
           /\ pts[f[i]].date = RowDate(rows, i)
           /\ IsRounded(pts[f[i]].yield, RowValue(rows, i))

\* C25: whatever the order of the valid rows in the feed, the series that
\* parse_boe_csv returns is ascending by date and is a rearrangement of the
\* valid rows.
C25_SortedPermutation ==
    (pc = "done" /\ result.parsed) =>
        /\ \A i \in 1..(Len(data_points) - 1) :
               data_points[i].date <= data_points[i + 1].date
        /\ Len(data_points) = Cardinality(ValidRows(feed))
        /\ \E f \in [ValidRows(feed) -> 1..Len(data_points)] :
               Places(f, feed, data_points)

\* a response whose two valid rows come latest first was parsed
C25_Witness ==
    /\ pc = "done" /\ result.parsed
    /\ Len(feed) = 3
    /\ ValidRows(feed) = {2, 3}
    /\ RowDate(feed, 2) > RowDate(feed, 3)
    /\ data_points[1].date = RowDate(feed, 3)
    /\ data_points[2].date = RowDate(feed, 2)

\* observation p is what row i of the response gives when read at the DATE
\* column and the series-code column of the header row
ReadFrom(rows, i, p) ==
    /\ i \in ValidRows(rows)
    /\ ~blank_row(rows[i])
    /\ p.date = RowDate(rows, i)
    /\ IsRounded(p.yield, RowValue(rows, i))

\* C26: the header is the first row with a DATE cell and a series-code cell
\* (a row with a DATE cell alone is passed over); without one there is no
\* observation; every observation is read from a row after the header at
\* the header's two columns, and every such row that parses gives one.
C26_HeaderRow ==
    (pc = "done" /\ result.parsed) =>
        /\ HeaderRow(feed) = 0 => data_points = <<>>
        /\ \A k \in 1..Len(data_points) :
               \E i \in (HeaderRow(feed) + 1)..Len(feed) :
                   ReadFrom(feed, i, data_points[k])
        /\ \A i \in ValidRows(feed) :
               \E k \in 1..Len(data_points) : ReadFrom(feed, i, data_points[k])

\* a row with DATE alone, then a header with its columns the other way
\* round, then a row that parses at the header's columns
C26_Witness ==
    /\ pc = "done" /\ result.parsed
    /\ Len(feed) = 3
    /\ HasCell(feed[1], "DATE") /\ ~HasCell(feed[1], "code")
    /\ HeaderRow(feed) = 2
    /\ FirstCell(feed[2], "DATE") # FirstCell(feed[1], "DATE")
    /\ ValidRows(feed) = {3}
    /\ Len(data_points) = 1

-----------------------------------------------------------------------------
(* The projection at the latest observation *)

\* the observation nearest to the quote's effective date is the latest one
MatchedLatest ==
    \A j \in 1..(Len(data_points) - 1) :
        Distance(data_points, j, dash.cnbc_date)
            > Distance(data_points, Len(data_points), dash.cnbc_date)

\* the live yield has at most 4 fractional digits
FourDigitQuote == live_data.yield % Fine = 0

\* C27: with the spread applied, the quote matched to the latest observation
\* and a live yield of at most 4 fractional digits, the last charted yield
\* is the headline yield, and for valid inputs the projection at the last
\* point is the base value V = R/(Y/100).
C27_LastPointIsBase ==
    (pc = "calc" /\ dash.spread_ok /\ MatchedLatest /\ FourDigitQuote) =>
        /\ ChartedYield(Len(dash.yields)) = HeadlineYield
        /\ ValidInputs =>
               /\ calc.impliedValues[Len(dash.yields)] = InputV
               /\ calc.impliedValues[Len(dash.yields)] = calc.baseValue

\* valid inputs in price mode on such a page, the slider off its default
C27_Witness ==
    /\ pc = "calc" /\ dash.spread_ok /\ MatchedLatest /\ FourDigitQuote
    /\ ValidInputs /\ calc.inputMode = "price" /\ calc.passThrough = 100
    /\ \E i \in 1..Len(dash.yields) : calc.impliedValues[i] # calc.baseValue
    /\ calc.impliedValues[Len(dash.yields)] = InputV

-----------------------------------------------------------------------------
(* What the calculator shows *)

\* the parsed rent, and the parsed input of the current mode, are > 0
RentGiven == Positive(parseNumber(calc.rentText))

PriceGiven == Positive(parseNumber(calc.priceText))

ModeInputGiven ==
    IF calc.inputMode = "price" THEN PriceGiven
    ELSE Positive(parseNumber(calc.yieldText))

\* C28: after any sequence of calculator events the results panel is
\* visible exactly when the parsed rent and the parsed input of the current
\* mode are > 0, the placeholder exactly when the panel is hidden, the value
\* chart exactly when the panel is visible, and the derived-yield note
\* exactly when the mode is price and rent and price are both valid.
C28_PanelVisibility ==
    pc = "calc" =>
        /\ calc.content <=> (RentGiven /\ ModeInputGiven)
        /\ calc.placeholder <=> ~calc.content
        /\ calc.chart <=> calc.content
        /\ calc.derived <=> (calc.inputMode = "price" /\ RentGiven /\ PriceGiven)

\* the panel and the note shown in price mode while the yield field holds
\* nothing valid
C28_Witness ==
    /\ pc = "calc" /\ calc.inputMode = "price"
    /\ calc.content /\ calc.chart /\ calc.derived /\ ~calc.placeholder
    /\ ~Positive(parseNumber(calc.yieldText))

-----------------------------------------------------------------------------
(* What the server answers with *)

\* the response sent last: 200 carries the cached page, and a refresh that
\* failed with nothing cached gave 500 and left the cache empty
AnsweredFromCache ==
    pc = "serve" =>
        /\ srv.last.status = 200 =>
               /\ srv.last.body # NoPage
               /\ srv.last.body = srv.cache.html
        /\ (srv.last.kind = "failed" /\ srv.last.cache_before.html = NoPage) =>
               /\ srv.last.status = 500
               /\ srv.cache = Cache(NoPage, 0)

\* a step stores a page in the cache only as a successful refresh, whose
\* response carries that page
StoredByRefresh ==
    srv'.cache.html # srv.cache.html =>
        /\ srv'.last.kind = "refreshed"
        /\ srv'.last.status = 200
        /\ srv'.last.body = srv'.cache.html

\* the step takes a request for a path other than the dashboard's
OtherPathTaken ==
    /\ pc = "serve"
    /\ srv.queue # <<>>
    /\ srv'.queue = Tail(srv.queue)
    /\ ~dashboard_path(Head(srv.queue).path)

\* such a request is answered 204, starts no refresh and leaves the cache
NoContent ==
    OtherPathTaken =>
        /\ srv'.last.status = 204
        /\ srv'.last.body = NoPage
        /\ srv'.handlers = srv.handlers
        /\ srv'.cache = srv.cache

\* C29: no 200 response goes out without a cached page: a dashboard request
\* whose refresh fails with nothing ever cached gets 500 and the cache stays
\* empty; a 200 body is the page stored by the most recent successful
\* refresh; any other path gets 204 with no refresh and no change of the
\* cache.
C29_ResponseStatus ==
    /\ []AnsweredFromCache
    /\ [][StoredByRefresh /\ NoContent]_vars

\* a refresh has failed with nothing cached, after an earlier request for
\* another path and more than CACHE_TTL after the server started
C29_Witness ==
    /\ pc = "serve"
    /\ srv.last.kind = "failed"
    /\ srv.last.status = 500
    /\ srv.last.cache_before = Cache(NoPage, 0)
    /\ srv.last.now > CACHE_TTL

-----------------------------------------------------------------------------
(* Refreshes that fail, and the one that succeeds *)

\* the step takes a request for the dashboard
DashboardTaken ==
    /\ pc = "serve"
    /\ srv.queue # <<>>
    /\ srv'.queue = Tail(srv.queue)
    /\ Head(srv.queue).path \in {"/", "/index.html"}

\* the step ends a refresh with a failure
RefreshFails ==
    /\ pc = "serve"
    /\ Len(srv'.handlers) < Len(srv.handlers)
    /\ srv'.last.kind = "failed"

\* the cached page is missing or more than CACHE_TTL seconds old
Due == srv.cache.html = NoPage \/ srv.clock - srv.cache.time > CACHE_TTL

\* a failure leaves the cache, timestamp included, and the cache is due
FailureKeepsDue ==
    RefreshFails => (srv'.cache = srv.cache /\ Due')

\* a cache that is due stays due through every step that leaves it alone
DueUntilStored ==
    (pc = "serve" /\ Due /\ srv'.cache = srv.cache) => Due'

\* a dashboard request taken while the cache is due starts a recomputation
\* and is not answered before that ends
DueIsRetried ==
    (DashboardTaken /\ Due) =>
        /\ Len(srv'.handlers) = Len(srv.handlers) + 1
        /\ srv'.handlers[Len(srv'.handlers)].now = srv.clock
        /\ srv'.last = srv.last

\* a dashboard request taken within CACHE_TTL seconds of the timestamp is
\* served the cached page with no recomputation
FreshIsServed ==
    (DashboardTaken /\ ~Due) =>
        /\ srv'.last.kind = "hit"
        /\ srv'.last.body = srv.cache.html
        /\ srv'.handlers = srv.handlers
        /\ srv'.cache = srv.cache

\* after a successful refresh the cache holds the new page with the
\* timestamp of the request that started it
StampedByRequest ==
    (pc = "serve" /\ srv.last.kind = "refreshed") =>
        srv.cache = Cache(srv.last.body, srv.last.now)

\* C30: a failed refresh leaves the cache timestamp, so every dashboard
\* request that follows attempts a recomputation until one succeeds; a
\* successful refresh leaves the new page in the cache with the timestamp of
\* its request, and requests in the 300 seconds after that timestamp are
\* served it with no recomputation.
C30_RetryUntilSuccess ==
    /\ []StampedByRequest
    /\ [][FailureKeepsDue /\ DueUntilStored /\ DueIsRetried /\ FreshIsServed]_vars

\* a refresh has failed, the stale page was served, and a dashboard request
\* that arrived no earlier is recomputing
C30_Witness ==
    /\ pc = "serve"
    /\ srv.last.kind = "failed" /\ srv.last.status = 200
    /\ Len(srv.handlers) = 1
    /\ srv.handlers[1].before = srv.cache
    /\ srv.handlers[1].conn.arrived >= srv.last.now

====
